---- MODULE Spec2Model ----
(***************************************************************************)
(* The stock dashboard in its two variants, src/app.py ("app") and         *)
(* src/st2.py ("st2").  One behaviour follows one process of one variant:  *)
(* module import (ticker list, layout), the callbacks Dash fires when the  *)
(* page loads, and then the user's clicks and dropdown changes.            *)
(*                                                                         *)
(* A price series is a sequence of rows, oldest first.  Prices are cents.  *)
(* A trace is described by what it plots (column, operation, window), a    *)
(* figure by its traces and by the frame it was built from.                *)
(* Python's None and 0 click counts are both falsy; both are written 0.    *)
(***************************************************************************)
EXTENDS Integers, Sequences, FiniteSets, TLC

\* Longest price series the data provider returns.
MaxRows == 3
\* How many entries of st2.py's list of initial tickers are followed.
MaxInitialChoices == 2
\* Number of clicks on each button that a behaviour follows.
MaxClicks == 2

VARIABLES
    variant,      \* "app" | "st2": which file is running
    phase,        \* "boot" | "serving" | "crashed"
    ticker_list,  \* the module-level ticker_list
    pending,      \* callbacks Dash still has to fire for the page load
    stock_name,   \* value of the "stock_name" dropdown
    chart,        \* value of the "chart" dropdown
    n_clicks,     \* n_clicks of "submit-button-state"
    graph,        \* figure of the "graph" component
    live,         \* figure of the "live price" component
    fetches,      \* number of price-series downloads made so far
    call,         \* the last invocation of graph_generator
    buy_clicks,   \* n_clicks of "buy-button"
    close_clicks, \* n_clicks of "close"
    is_open,      \* is_open of "modal"
    modal_body,   \* children of "modal-body"
    mcall         \* the last invocation of toggle_modal

vars == <<variant, phase, ticker_list, pending, stock_name, chart, n_clicks,
          graph, live, fetches, call, buy_clicks, close_clicks, is_open,
          modal_body, mcall>>

graph_vars == <<n_clicks, graph, live, fetches, call>>
modal_vars == <<buy_clicks, close_clicks, is_open, modal_body, mcall>>

----------------------------------------------------------------------------
(* Data *)

\* An entry of a pickled ticker list: a str, or something else whose str()
\* is text.
Str(s) == [isstr |-> TRUE, text |-> s]
NonStr(s) == [isstr |-> FALSE, text |-> s]

\* str(x) of a ticker-list entry.
str(entry) == entry.text

\* What open("tickers.pickle") and pickle.load can yield.
PickleFiles ==
    { [present |-> FALSE, data |-> <<>>],
      [present |-> TRUE, data |-> <<>>],
      [present |-> TRUE, data |-> <<Str("AAPL"), Str("F")>>],
      [present |-> TRUE, data |-> <<NonStr("7")>>] }

default_tickers ==
    <<Str("AAPL"), Str("GOOGL"), Str("MSFT"), Str("AMZN"), Str("TSLA")>>

st2_initial_choices ==
    <<"TSLA", "GOOGL", "F", "GE", "AAL", "DIS", "DAL", "AAPL", "MSFT", "CCL",
      "GPRO", "ACB", "PLUG", "AMZN">>

chart_options ==
    <<"Line", "Candlestick", "SMA", "EMA", "MACD", "RSI", "OHLC">>

Range(s) == { s[i] : i \in DOMAIN s }

\* The prices of day i, in cents.
Day(i) ==
    [open |-> 100 * i, high |-> 100 * i + 30, low |-> 100 * i - 10,
     close |-> 100 * i + 10]

\* The frames a download can return: the first n days, none included.
Series == { [i \in 1..n |-> Day(i)] : n \in 0..MaxRows }

\* Prices get_live_price can return.
LivePrices == {99, 250}

----------------------------------------------------------------------------
(* Figures *)

Trace(type, name, column, op, window) ==
    [type |-> type, name |-> name, column |-> column, op |-> op,
     window |-> window]

\* A figure: how it was made, its layout title, its traces, the frame its
\* traces read, and the number and delta reference it displays (0: none).
Figure(kind, title, traces, data, value, reference) ==
    [kind |-> kind, title |-> title, traces |-> traces, data |-> data,
     value |-> value, reference |-> reference]

\* A dcc.Graph that was given no figure.
NoFigure == Figure("unset", "", <<>>, <<>>, 0, 0)

\* The {} a callback returns for "nothing to show".
EmptyFigure == Figure("empty", "", <<>>, <<>>, 0, 0)

\* app.py: the if/elif chain over chart_name.
app_traces(chart_name) ==
    CASE chart_name = "Line" ->
           <<Trace("Scatter", "Close", "Close", "values", 0)>>
      [] chart_name = "Candlestick" ->
           <<Trace("Candlestick", "Candlestick", "Open,High,Low,Close",
                   "values", 0)>>
      [] chart_name = "SMA" ->
           <<Trace("Scatter", "10 Days", "Close", "rolling_mean", 10),
             Trace("Scatter", "30 Days", "Close", "rolling_mean", 30)>>
      [] chart_name = "EMA" ->
           <<Trace("Scatter", "10 Days", "Close", "ewm_mean", 10),
             Trace("Scatter", "30 Days", "Close", "ewm_mean", 30)>>
      [] chart_name = "MACD" ->
           <<Trace("Scatter", "MACD", "macd", "values", 0),
             Trace("Scatter", "Signal", "macds", "values", 0),
             Trace("Scatter", "Histogram", "macdh", "values", 0)>>
      [] chart_name = "RSI" ->
           <<Trace("Scatter", "RSI 6 Day", "rsi_6", "values", 0),
             Trace("Scatter", "RSI 12 Day", "rsi_12", "values", 0)>>
      [] chart_name = "OHLC" ->
           <<Trace("Ohlc", "", "Open,High,Low,Close", "values", 0)>>
      [] OTHER -> <<>>

\* st2.py: the if/elif chain over chart_name.
st2_traces_span_pasted(chart_name) ==
    CASE chart_name = "Line" ->
           <<Trace("Scatter", "close", "close", "values", 0)>>
      [] chart_name = "Candlestick" ->
           <<Trace("Candlestick", "Candlestick", "open,high,low,close",
                   "values", 0)>>
      [] chart_name = "SMA" ->
           <<Trace("Scatter", "10 Days", "close", "rolling_mean", 10),
             Trace("Scatter", "15 Days", "close", "rolling_mean", 15),
             Trace("Scatter", "30 Days", "close", "rolling_mean", 30),
             Trace("Scatter", "100 Days", "close", "rolling_mean", 100)>>
      [] chart_name = "EMA" ->
           <<Trace("Scatter", "10 Days", "close", "ewm_mean", 10),
             Trace("Scatter", "15 Days", "close", "ewm_mean", 30),
             Trace("Scatter", "30 Days", "close", "ewm_mean", 30),
             Trace("Scatter", "100 Days", "close", "ewm_mean", 100)>>
      [] chart_name = "MACD" ->
           <<Trace("Scatter", "MACD", "macd", "values", 0),
             Trace("Scatter", "Signal", "macds", "values", 0),
             Trace("Scatter", "Histogram", "macdh", "values", 0)>>
      [] chart_name = "RSI" ->
           <<Trace("Scatter", "RSI 6 Day", "rsi_6", "values", 0),
             Trace("Scatter", "RSI 12 Day", "rsi_12", "values", 0)>>
      [] chart_name = "OHLC" ->
           <<Trace("Ohlc", "", "open,high,low,close", "values", 0)>>
      [] OTHER -> <<>>

st2_traces(chart_name) ==
    CASE chart_name = "Line" ->
           <<Trace("Scatter", "close", "close", "values", 0)>>
      [] chart_name = "Candlestick" ->
           <<Trace("Candlestick", "Candlestick", "open,high,low,close",
                   "values", 0)>>
      [] chart_name = "SMA" ->
           <<Trace("Scatter", "10 Days", "close", "rolling_mean", 10),
             Trace("Scatter", "15 Days", "close", "rolling_mean", 15),
             Trace("Scatter", "30 Days", "close", "rolling_mean", 30),
             Trace("Scatter", "100 Days", "close", "rolling_mean", 100)>>
      [] chart_name = "EMA" ->
           <<Trace("Scatter", "10 Days", "close", "ewm_mean", 10),
             Trace("Scatter", "15 Days", "close", "ewm_mean", 15),
             Trace("Scatter", "30 Days", "close", "ewm_mean", 30),
             Trace("Scatter", "100 Days", "close", "ewm_mean", 100)>>
      [] chart_name = "MACD" ->
           <<Trace("Scatter", "MACD", "macd", "values", 0),
             Trace("Scatter", "Signal", "macds", "values", 0),
             Trace("Scatter", "Histogram", "macdh", "values", 0)>>
      [] chart_name = "RSI" ->
           <<Trace("Scatter", "RSI 6 Day", "rsi_6", "values", 0),
             Trace("Scatter", "RSI 12 Day", "rsi_12", "values", 0)>>
      [] chart_name = "OHLC" ->
           <<Trace("Ohlc", "", "open,high,low,close", "values", 0)>>
      [] OTHER -> <<>>

\* st2.py: df.close = df.close * 1.1, row by row.
st2_scale_close(df) ==
    [i \in DOMAIN df |-> [df[i] EXCEPT !.close = (df[i].close * 11) \div 10]]

----------------------------------------------------------------------------
(* graph_generator *)

\* What one invocation did: the exception it raised ("none": it returned),
\* the tickers it asked the provider for, the frame the provider gave, and
\* the tuple it returned.
Outcome(raised, asked, df, ret) ==
    [raised |-> raised, asked |-> asked, df |-> df, ret |-> ret]

\* app.py: the guard "if n_clicks == 0".
app_not_clicked_shifted(n) == n < 0
app_not_clicked(n) == n = 0

\* app.py: the closing "return fig, live_price_fig".
app_return_swapped(fig, live_price_fig) == <<live_price_fig, fig>>
app_return(fig, live_price_fig) == <<fig, live_price_fig>>

\* app.py graph_generator; df is what yf.download gives if it is called.
app_graph_generator(n, ticker, chart_name, df) ==
    IF app_not_clicked(n)
    THEN Outcome("none", <<>>, <<>>, <<EmptyFigure, EmptyFigure>>)
    ELSE IF df = <<>>
    THEN Outcome("none", <<ticker>>, df, <<EmptyFigure, EmptyFigure>>)
    ELSE LET live_price_fig ==
                 Figure("live price", ticker,
                        <<Trace("Scatter", "Live Price", "Close", "last", 0)>>,
                        df, df[Len(df)].close, 0)
             fig == Figure("chart", chart_name, app_traces(chart_name), df,
                           0, 0)
         IN  Outcome("none", <<ticker>>, df, app_return(fig, live_price_fig))

\* st2.py graph_generator; df is what yf.get_data gives if it is called.
\* With n < 1 df is never assigned and its first read raises.  The indicator
\* reads df.close[-1] and df.close[-2] unguarded: a frame of fewer than two
\* rows raises there at the latest, after the chart has been built.
st2_graph_generator(n, ticker, chart_name, df) ==
    IF ~(n >= 1)
    THEN Outcome("UnboundLocalError", <<>>, <<>>, <<>>)
    ELSE LET frame == st2_scale_close(df)
             fig == Figure("chart", chart_name, st2_traces(chart_name),
                           frame, 0, 0)
         IN  IF Len(frame) < 2
             THEN Outcome("IndexError", <<ticker>>, df, <<>>)
             ELSE LET live_price ==
                          Figure("live price", ticker,
                                 <<Trace("Indicator", "", "close", "last", 0)>>,
                                 frame, frame[Len(frame)].close,
                                 frame[Len(frame) - 1].close)
                  IN  Outcome("none", <<ticker>>, df, <<fig, live_price>>)

graph_generator(v, n, ticker, chart_name, df) ==
    IF v = "app"
    THEN app_graph_generator(n, ticker, chart_name, df)
    ELSE st2_graph_generator(n, ticker, chart_name, df)

\* The record of an invocation: its arguments and its outcome.
Call(n, ticker, chart_name, out) ==
    [n |-> n, ticker |-> ticker, chart_name |-> chart_name, out |-> out]

NoCall == Call(0, "", "", Outcome("not called", <<>>, <<>>, <<>>))

----------------------------------------------------------------------------
(* toggle_modal (st2.py) *)

\* f"{live_price*1.1:.2f}" of a price in cents: the cents printed (eleven
\* tenths, rounded to the nearest cent; LivePrices holds no tie).
format_without_markup(live_price) == live_price
format_marked_up(live_price) == (live_price * 11 + 5) \div 10

\* The f-string of the modal body, piece by piece; "" is <<>>.
buy_question(name, live_price) ==
    <<"Do you want to buy ", name, " at $", format_marked_up(live_price), "?">>

\* st2.py toggle_modal; price is what yf.get_live_price gives if called.
\* asked: the tickers whose live price it fetched.
toggle_modal_keeps_body(n1, n2, open, name, price) ==
    IF n1 # 0 \/ n2 # 0
    THEN IF ~open
         THEN [asked |-> <<name>>, ret |-> <<TRUE, buy_question(name, price)>>]
         ELSE [asked |-> <<>>, ret |-> <<FALSE, buy_question(name, price)>>]
    ELSE [asked |-> <<>>, ret |-> <<open, <<>> >>]

toggle_modal(n1, n2, open, name, price) ==
    IF n1 # 0 \/ n2 # 0
    THEN IF ~open
         THEN [asked |-> <<name>>, ret |-> <<TRUE, buy_question(name, price)>>]
         ELSE [asked |-> <<>>, ret |-> <<FALSE, <<>> >>]
    ELSE [asked |-> <<>>, ret |-> <<open, <<>> >>]

\* The record of an invocation: its arguments, the price fetched, its outcome.
ModalCall(n1, n2, open, name, price, out) ==
    [n1 |-> n1, n2 |-> n2, is_open |-> open, stock_name |-> name,
     price |-> price, out |-> out]

NoModalCall ==
    ModalCall(0, 0, FALSE, "", 0, [asked |-> <<>>, ret |-> <<>>])

----------------------------------------------------------------------------
(* Layout values *)

\* n_clicks of the Plot button in app.layout.
app_n_clicks == 0
st2_n_clicks_as_app == app_n_clicks
st2_n_clicks == 1

\* The Output list of graph_generator's @app.callback, in order.
graph_outputs == <<"graph", "live price">>

\* The place of a component in that list.
Position(id) == CHOOSE i \in DOMAIN graph_outputs : graph_outputs[i] = id

initial_n_clicks == IF variant = "app" THEN app_n_clicks ELSE st2_n_clicks

\* The callbacks registered with @app.callback; Dash fires each once when
\* the page loads.
callbacks ==
    IF variant = "app"
    THEN {"graph_generator"}
    ELSE {"graph_generator", "toggle_modal"}

----------------------------------------------------------------------------
(* Behaviour *)

Init ==
    /\ variant \in {"app", "st2"}
    /\ phase = "boot"
    /\ ticker_list = <<>>
    /\ pending = {}
    /\ stock_name = ""
    /\ chart = ""
    /\ n_clicks = 0
    /\ graph = NoFigure
    /\ live = NoFigure
    /\ fetches = 0
    /\ call = NoCall
    /\ buy_clicks = 0
    /\ close_clicks = 0
    /\ is_open = FALSE
    /\ modal_body = <<>>
    /\ mcall = NoModalCall

\* The layout is built: dropdown values, button counters, callbacks due.
Serve(tickers, name) ==
    /\ phase' = "serving"
    /\ ticker_list' = tickers
    /\ stock_name' = name
    /\ chart' = "Line"
    /\ n_clicks' = initial_n_clicks
    /\ pending' = callbacks
    /\ UNCHANGED <<variant, graph, live, fetches, call, modal_vars>>

\* The import raised: no server.
Crash(tickers) ==
    /\ phase' = "crashed"
    /\ ticker_list' = tickers
    /\ UNCHANGED <<variant, pending, stock_name, chart, graph_vars,
                   modal_vars>>

\* app.py module import: load tickers.pickle or fall back to the default
\* list, then build the layout; random.choice of an empty list raises.
AppStartup ==
    /\ variant = "app"
    /\ phase = "boot"
    /\ \E file \in PickleFiles :
          LET loaded == IF file.present THEN file.data ELSE default_tickers
          IN  IF loaded = <<>>
              THEN Crash(loaded)
              ELSE \E i \in DOMAIN loaded : Serve(loaded, str(loaded[i]))

\* st2.py module import: load tickers.pickle (a missing file raises), then
\* build the layout with an initial ticker from the fixed list.
St2Startup ==
    /\ variant = "st2"
    /\ phase = "boot"
    /\ \E file \in PickleFiles :
          IF ~file.present
          THEN Crash(<<>>)
          ELSE \E i \in DOMAIN st2_initial_choices :
                  /\ i <= MaxInitialChoices
                  /\ Serve(file.data, st2_initial_choices[i])

\* Dash invokes graph_generator with n and the dropdowns' current values and,
\* if it returns, assigns the tuple to the outputs in their declared order.
\* An exception leaves the components as they are.
RunGraph(n, df) ==
    LET out == graph_generator(variant, n, stock_name, chart, df)
    IN  /\ call' = Call(n, stock_name, chart, out)
        /\ fetches' = fetches + Len(out.asked)
        /\ IF out.raised = "none"
           THEN /\ graph' = out.ret[Position("graph")]
                /\ live' = out.ret[Position("live price")]
           ELSE UNCHANGED <<graph, live>>

\* Dash invokes toggle_modal with the two counters and the modal's state.
RunModal(n1, n2, price) ==
    LET out == toggle_modal(n1, n2, is_open, stock_name, price)
    IN  /\ mcall' = ModalCall(n1, n2, is_open, stock_name, price, out)
        /\ is_open' = out.ret[1]
        /\ modal_body' = out.ret[2]

\* Page load: graph_generator fires with the layout's n_clicks.
LoadGraph ==
    /\ phase = "serving"
    /\ "graph_generator" \in pending
    /\ pending' = pending \ {"graph_generator"}
    /\ \E df \in Series : RunGraph(n_clicks, df)
    /\ UNCHANGED <<variant, phase, ticker_list, stock_name, chart, n_clicks,
                   modal_vars>>

\* Page load: toggle_modal fires with the layout's counters.
LoadModal ==
    /\ phase = "serving"
    /\ "toggle_modal" \in pending
    /\ pending' = pending \ {"toggle_modal"}
    /\ \E price \in LivePrices : RunModal(buy_clicks, close_clicks, price)
    /\ UNCHANGED <<variant, phase, ticker_list, stock_name, chart,
                   buy_clicks, close_clicks, graph_vars>>

\* The user clicks Plot.
ClickPlot ==
    /\ phase = "serving"
    /\ "graph_generator" \notin pending
    /\ n_clicks < initial_n_clicks + MaxClicks
    /\ n_clicks' = n_clicks + 1
    /\ \E df \in Series : RunGraph(n_clicks + 1, df)
    /\ UNCHANGED <<variant, phase, ticker_list, pending, stock_name, chart,
                   modal_vars>>

\* The user picks another ticker: a State of the callbacks, no Input.
SelectTickerAsInput ==
    /\ phase = "serving"
    /\ \E i \in DOMAIN ticker_list :
          /\ str(ticker_list[i]) # stock_name
          /\ stock_name' = str(ticker_list[i])
    /\ \E df \in Series : RunGraph(n_clicks, df)
    /\ UNCHANGED <<variant, phase, ticker_list, pending, chart, n_clicks,
                   modal_vars>>

SelectTicker ==
    /\ phase = "serving"
    /\ \E i \in DOMAIN ticker_list :
          /\ str(ticker_list[i]) # stock_name
          /\ stock_name' = str(ticker_list[i])
    /\ UNCHANGED <<variant, phase, ticker_list, pending, chart, graph_vars,
                   modal_vars>>

\* The user picks another chart type: a State of the callback, no Input.
SelectChart ==
    /\ phase = "serving"
    /\ \E c \in Range(chart_options) : c # chart /\ chart' = c
    /\ UNCHANGED <<variant, phase, ticker_list, pending, stock_name,
                   graph_vars, modal_vars>>

\* The user clicks Buy Stock (st2.py).
ClickBuy ==
    /\ phase = "serving"
    /\ "toggle_modal" \notin pending
    /\ buy_clicks < MaxClicks
    /\ buy_clicks' = buy_clicks + 1
    /\ \E price \in LivePrices : RunModal(buy_clicks + 1, close_clicks, price)
    /\ UNCHANGED <<variant, phase, ticker_list, pending, stock_name, chart,
                   close_clicks, graph_vars>>

\* The user clicks Close (st2.py).
ClickClose ==
    /\ phase = "serving"
    /\ "toggle_modal" \notin pending
    /\ close_clicks < MaxClicks
    /\ close_clicks' = close_clicks + 1
    /\ \E price \in LivePrices : RunModal(buy_clicks, close_clicks + 1, price)
    /\ UNCHANGED <<variant, phase, ticker_list, pending, stock_name, chart,
                   buy_clicks, graph_vars>>

\* The two callbacks write disjoint outputs and neither reads what the
\* other writes (they share the State "stock_name" only), so each is followed
\* in a specification of its own: the user's steps that reach graph_generator
\* and the user's steps that reach toggle_modal.
GraphNext ==
    \/ AppStartup
    \/ St2Startup
    \/ LoadGraph
    \/ ClickPlot
    \/ SelectTicker
    \/ SelectChart

GraphSpec == Init /\ [][GraphNext]_vars

ModalNext ==
    \/ St2Startup
    \/ LoadModal
    \/ SelectTicker
    \/ ClickBuy
    \/ ClickClose

ModalInit == Init /\ variant = "st2"

ModalSpec == ModalInit /\ [][ModalNext]_vars

----------------------------------------------------------------------------
(* Properties *)

\* graph_generator has been invoked, and for a click on Plot.
Called == call.out.raised # "not called"
Clicked == Called /\ call.n > initial_n_clicks

\* toggle_modal has been invoked.
ModalCalled == mcall.out.ret # <<>>

\* The frame the figures of a variant read, given the frame downloaded.
FrameRead(df) == IF variant = "app" THEN df ELSE st2_scale_close(df)

\* The column holding closing prices, and the moving-average windows.
close_column == IF variant = "app" THEN "Close" ELSE "close"
windows == IF variant = "app" THEN <<10, 30>> ELSE <<10, 15, 30, 100>>

\* C1: in both variants, a Plot click whose download has zero rows makes
\* graph_generator return an empty figure for both outputs; it does not
\* raise.
C1_EmptyFetchGivesEmptyFigures ==
    (Clicked /\ call.out.asked # <<>> /\ call.out.df = <<>>)
        => /\ call.out.raised = "none"
           /\ call.out.ret = <<EmptyFigure, EmptyFigure>>

\* C2: for every chart type the dropdown offers, a Plot click whose download
\* has at least one row makes graph_generator return a main figure with at
\* least one trace.
C2_ListedChartTypeGivesTrace ==
    (Clicked /\ call.out.asked # <<>> /\ call.out.df # <<>>
        /\ call.chart_name \in Range(chart_options))
        => /\ call.out.raised = "none"
           /\ Len(call.out.ret[1].traces) >= 1

\* C3: an SMA or EMA chart holds moving averages of the closing-price column
\* only, one per window of the variant (10 and 30 in app.py; 10, 15, 30 and
\* 100 in st2.py), rolling means for SMA and exponential ones for EMA, each
\* named after its window.
C3_MovingAverageWindows ==
    (graph.kind = "chart" /\ graph.title \in {"SMA", "EMA"})
        => /\ Len(graph.traces) = Len(windows)
           /\ \A i \in DOMAIN graph.traces :
                 /\ graph.traces[i].column = close_column
                 /\ graph.traces[i].window = windows[i]
                 /\ graph.traces[i].name = ToString(windows[i]) \o " Days"
                 /\ graph.traces[i].op =
                        IF graph.title = "SMA" THEN "rolling_mean"
                                               ELSE "ewm_mean"

C3_Witness ==
    /\ variant = "st2"
    /\ graph.kind = "chart"
    /\ graph.title = "EMA"
    /\ Len(graph.traces) = 4

\* C4: once startup has completed, ticker_list is non-empty and each of its
\* entries is a string.
C4_TickerListNonEmptyStrings ==
    phase = "serving"
        => /\ ticker_list # <<>>
           /\ \A i \in DOMAIN ticker_list : ticker_list[i].isstr

C6_BuyOpensCloseCloses ==
    [][ /\ (buy_clicks' = buy_clicks + 1 /\ ~is_open)
            => /\ is_open'
               /\ Len(modal_body') = 5
               /\ modal_body'[2] = stock_name
               /\ mcall'.out.asked = <<stock_name>>
               /\ 10 * modal_body'[4] - 11 * mcall'.price \in -5..5
        /\ (close_clicks' = close_clicks + 1 /\ is_open) => ~is_open'
      ]_vars

C6_Witness ==
    /\ ModalCalled
    /\ mcall.n1 >= 1
    /\ mcall.n2 >= 1
    /\ mcall.is_open
    /\ ~is_open

\* C7: each click on Plot makes exactly one download, for the ticker selected
\* at that moment, and the figures it returns read the frame of that
\* download; changing a dropdown makes no download and leaves both figures
\* as they were.
C7_FreshFetchPerClick ==
    [][ phase = "serving" =>
          /\ (n_clicks' = n_clicks + 1)
                => /\ fetches' = fetches + 1
                   /\ call'.out.asked = <<stock_name>>
                   /\ call'.out.raised = "none"
                         => /\ graph'.data = FrameRead(call'.out.df)
                            /\ live'.data = FrameRead(call'.out.df)
                            /\ live'.kind = "live price"
                                  => live'.title = stock_name
          /\ (stock_name' # stock_name \/ chart' # chart)
                => /\ fetches' = fetches
                   /\ graph' = graph
                   /\ live' = live
      ]_vars

C7_Witness ==
    /\ fetches >= 2
    /\ call.n >= 2
    /\ call.out.raised = "none"
    /\ graph.kind = "chart"
    /\ stock_name # live.title
    /\ chart # graph.title

\* C8: in app.py, while Plot has not been clicked (n_clicks = 0) no download
\* is made and both outputs are empty figures; an invocation with
\* n_clicks >= 1 always makes the download.
C8_NoFetchBeforeFirstClick ==
    (variant = "app" /\ Called)
        => /\ call.n = 0
                => /\ call.out.asked = <<>>
                   /\ call.out.ret = <<EmptyFigure, EmptyFigure>>
           /\ n_clicks = 0
                => /\ fetches = 0
                   /\ graph = EmptyFigure
                   /\ live = EmptyFigure
           /\ call.n >= 1 => Len(call.out.asked) = 1

C8_Witness ==
    /\ variant = "app"
    /\ Called
    /\ n_clicks = 0
    /\ chart = "SMA"
    /\ graph = EmptyFigure

\* C9: in st2.py, n_clicks is at least 1 in every state of the running
\* dashboard, so every invocation of graph_generator assigns df before
\* reading it.
C9_FrameAssignedBeforeRead ==
    (variant = "st2" /\ phase = "serving")
        => /\ n_clicks >= 1
           /\ call.out.raised # "UnboundLocalError"
           /\ Called => (call.n >= 1 /\ Len(call.out.asked) = 1)

C9_Witness ==
    /\ variant = "st2"
    /\ Called
    /\ call.n = 1
    /\ call.out.raised = "none"

\* C10: in st2.py, every invocation of toggle_modal with a nonzero click
\* count flips is_open; the body it returns is non-empty exactly when it
\* returns the modal open; a live price is fetched exactly on a
\* closed-to-open transition.
C10_ModalFlipsAndBodyMatches ==
    ModalCalled
        => /\ (mcall.n1 # 0 \/ mcall.n2 # 0)
                => mcall.out.ret[1] = ~mcall.is_open
           /\ (mcall.out.ret[2] # <<>>) <=> mcall.out.ret[1]
           /\ (mcall.out.asked # <<>>)
                <=> (~mcall.is_open /\ mcall.out.ret[1])
           /\ is_open = mcall.out.ret[1]
           /\ modal_body = mcall.out.ret[2]

C10_Witness ==
    /\ ModalCalled
    /\ buy_clicks = 2
    /\ close_clicks = 1
    /\ is_open
    /\ modal_body # <<>>

====
